---- MODULE Spec2Model ----
(***************************************************************************)
(* Model of src/github.rs of tailor: one invocation of                     *)
(* validate_pull_request, from the three fetches of fetch_pull_request     *)
(* through find_exemptions and the rule loop to the returned Result.       *)
(*                                                                         *)
(* Strings that the code splits, trims or compares are sequences of        *)
(* one-character strings.  The GitHub client and expr::eval are external:  *)
(* every response they can give is a nondeterministic choice.              *)
(***************************************************************************)
EXTENDS Integers, Sequences, FiniteSets, TLC

\* Largest number of comments the comments fetch returns.
MaxComments == 2

----------------------------------------------------------------------------
\* Strings

Marker == <<"t","a","i","l","o","r"," ","d","i","s","a","b","l","e">>

White == {" ", "\t", "\n", "\r"}

Range(s) == {s[k] : k \in 1..Len(s)}

\* str::starts_with
StartsWith(s, p) == Len(s) >= Len(p) /\ SubSeq(s, 1, Len(p)) = p

MatchAt(s, p, k) ==
    /\ k + Len(p) - 1 <= Len(s)
    /\ Len(p) = 0 \/ s[k] = p[1]
    /\ SubSeq(s, k, k + Len(p) - 1) = p

\* position of the first match of p in s at or after from, 0 when none
Find(s, p, from) ==
    LET hits == {k \in from..Len(s) : MatchAt(s, p, k)}
    IN  IF hits = {} THEN 0 ELSE CHOOSE k \in hits : \A h \in hits : k <= h

\* str::contains
Contains(s, p) == Find(s, p, 1) # 0

RECURSIVE SplitFrom(_, _, _)
SplitFrom(s, p, start) ==
    LET k == Find(s, p, start)
    IN  IF k = 0
        THEN <<SubSeq(s, start, Len(s))>>
        ELSE <<SubSeq(s, start, k - 1)>> \o SplitFrom(s, p, k + Len(p))

\* str::splitn(2, pattern) in place of split: cut at the first match only
Split_N2(s, p) ==
    LET k == Find(s, p, 1)
    IN  IF k = 0 THEN <<s>>
        ELSE <<SubSeq(s, 1, k - 1), SubSeq(s, k + Len(p), Len(s))>>

\* str::split(pattern): the segments between all non-overlapping matches
Split(s, p) == SplitFrom(s, p, 1)

\* str::trim
Trim(s) ==
    LET keep == {k \in 1..Len(s) : s[k] \notin White}
    IN  IF keep = {} THEN <<>>
        ELSE SubSeq(s, CHOOSE a \in keep : \A k \in keep : a <= k,
                       CHOOSE b \in keep : \A k \in keep : b >= k)

----------------------------------------------------------------------------
\* Configuration (config::Repo) and the data the platform can return

ci == <<"c","i">>
desc == <<"d","e","s","c">>
zz == <<"z","z">>

Owner == <<"o","r","g">>
RepoName == <<"r","e","p","o">>

Rules == <<
    [name |-> ci,   description |-> <<"needs commits">>, expression |-> "commits.size>0"],
    [name |-> desc, description |-> <<"needs body">>,    expression |-> "body!=''"] >>

Logins == {"alice", "bob"}

\* the author of the pull request; the comments are written by any login
PrLogins == {"alice"}

Permission == {"admin", "write", "read", "none"}

Bodies == {
    Marker \o <<" ">> \o ci,
    Marker \o <<" ">> \o desc \o <<" ">>,
    Marker \o <<" ">> \o zz,
    Marker,
    Marker \o <<" ", " ">>,
    <<"o","k"," ">> \o Marker \o <<" ">> \o ci,
    Marker \o <<" ">> \o ci \o <<" ">> \o Marker \o <<" ">> \o desc,
    <<"l","g","t","m">> }

Comment == [user : [login : Logins], body : Bodies]

CommentLists == UNION {[1..n -> Comment] : n \in 0..MaxComments}

CommitLists == {<<[sha |-> "c1", message |-> "m"]>>}

NoPR == [none |-> TRUE]
NoResult == [kind |-> "none"]

----------------------------------------------------------------------------
VARIABLES
    pc,          \* position of the run
    perm,        \* the platform: collaborator permission of each login
    fetches,     \* outcome of each fetch issued so far
    rawPr,       \* RawPullRequest of the first fetch
    rawCommits,  \* Vec<Commit> of the second fetch
    pr,          \* the PullRequest built by fetch_pull_request
    i,           \* find_exemptions: index of the next comment
    exemptions,  \* find_exemptions: Vec<String>
    lookups,     \* collaborator-permission requests issued so far
    j,           \* validate_pull_request: index of the next rule
    evaluated,   \* expr::eval calls made so far
    failures,    \* validate_pull_request: Vec<String>
    result       \* what validate_pull_request returned

vars == <<pc, perm, fetches, rawPr, rawCommits, pr, i, exemptions, lookups,
          j, evaluated, failures, result>>

Init ==
    /\ pc = "fetch_pr"
    /\ perm \in [Logins -> Permission]
    /\ fetches = <<>>
    /\ rawPr = NoPR
    /\ rawCommits = <<>>
    /\ pr = NoPR
    /\ i = 1
    /\ exemptions = <<>>
    /\ lookups = <<>>
    /\ j = 1
    /\ evaluated = <<>>
    /\ failures = <<>>
    /\ result = NoResult

\* bail!(...) / `?`: the run returns Err
Bail(msg) == [kind |-> "err", msg |-> msg]

----------------------------------------------------------------------------
\* fetch_pull_request

FetchPrOk ==
    /\ pc = "fetch_pr"
    /\ \E u \in PrLogins :
         rawPr' = [user |-> [login |-> u], title |-> "t", body |-> "b"]
    /\ fetches' = Append(fetches, "ok")
    /\ pc' = "fetch_commits"
    /\ UNCHANGED <<perm, rawCommits, pr, i, exemptions, lookups, j, evaluated,
                   failures, result>>

FetchPrFail ==
    /\ pc = "fetch_pr"
    /\ \E f \in {"nobody", "error"} :
         /\ fetches' = Append(fetches, f)
         /\ result' = Bail(IF f = "nobody"
                           THEN <<"Could not get pull request: HTTP ", "status">>
                           ELSE <<"client error">>)
    /\ pc' = "done"
    /\ UNCHANGED <<perm, rawPr, rawCommits, pr, i, exemptions, lookups, j,
                   evaluated, failures>>

FetchCommitsOk ==
    /\ pc = "fetch_commits"
    /\ \E cs \in CommitLists : rawCommits' = cs
    /\ fetches' = Append(fetches, "ok")
    /\ pc' = "fetch_comments"
    /\ UNCHANGED <<perm, rawPr, pr, i, exemptions, lookups, j, evaluated,
                   failures, result>>

\* a failed fetch of the commits taken as "no commits" in place of bail!
FetchCommitsFail_Continue ==
    /\ pc = "fetch_commits"
    /\ \E f \in {"nobody", "error"} : fetches' = Append(fetches, f)
    /\ rawCommits' = <<>>
    /\ pc' = "fetch_comments"
    /\ UNCHANGED <<perm, rawPr, pr, i, exemptions, lookups, j, evaluated,
                   failures, result>>

FetchCommitsFail ==
    /\ pc = "fetch_commits"
    /\ \E f \in {"nobody", "error"} :
         /\ fetches' = Append(fetches, f)
         /\ result' = Bail(IF f = "nobody"
                           THEN <<"Could not get pull request commits: HTTP ", "status">>
                           ELSE <<"client error">>)
    /\ pc' = "done"
    /\ UNCHANGED <<perm, rawPr, rawCommits, pr, i, exemptions, lookups, j,
                   evaluated, failures>>

\* the third fetch and, when it succeeds, Ok(PullRequest { .. })
FetchCommentsOk ==
    /\ pc = "fetch_comments"
    /\ \E cms \in CommentLists :
         pr' = [user |-> rawPr.user, title |-> rawPr.title, body |-> rawPr.body,
                commits |-> rawCommits, comments |-> cms]
    /\ fetches' = Append(fetches, "ok")
    /\ pc' = "resolve"
    /\ UNCHANGED <<perm, rawPr, rawCommits, i, exemptions, lookups, j,
                   evaluated, failures, result>>

FetchCommentsFail ==
    /\ pc = "fetch_comments"
    /\ \E f \in {"nobody", "error"} :
         /\ fetches' = Append(fetches, f)
         /\ result' = Bail(IF f = "nobody"
                           THEN <<"Could not get pull request comments: HTTP ", "status">>
                           ELSE <<"client error">>)
    /\ pc' = "done"
    /\ UNCHANGED <<perm, rawPr, rawCommits, pr, i, exemptions, lookups, j,
                   evaluated, failures>>

----------------------------------------------------------------------------
\* find_exemptions

\* contains in place of starts_with
IsDirective_Contains(body) == Contains(body, Marker)

\* the condition of the outer `if`
IsDirective(body) == StartsWith(body, Marker)

\* split.next(); split.next() is Some(..) when split yields a second segment
HasCheck(body) == Len(Split(body, Marker)) >= 2

\* disabled_check: the second segment of the split
DisabledCheck(body) == Split(body, Marker)[2]

\* the permission of the author of the pull request in place of the comment's
LookupLogin_PrAuthor(comment) == pr.user.login

\* the login whose permission is requested
LookupLogin(comment) == comment.user.login

\* collaborator.permission == Permission::Admin
Grants(permission) == permission = "admin"

SkipComment ==
    /\ pc = "resolve"
    /\ i <= Len(pr.comments)
    /\ ~(IsDirective(pr.comments[i].body) /\ HasCheck(pr.comments[i].body))
    /\ i' = i + 1
    /\ UNCHANGED <<pc, perm, fetches, rawPr, rawCommits, pr, exemptions,
                   lookups, j, evaluated, failures, result>>

LookupOk ==
    /\ pc = "resolve"
    /\ i <= Len(pr.comments)
    /\ IsDirective(pr.comments[i].body) /\ HasCheck(pr.comments[i].body)
    /\ LET login == LookupLogin(pr.comments[i])
           collaborator == [permission |-> perm[login]]
       IN  /\ lookups' = Append(lookups, [comment |-> i, login |-> login,
                                          resp |-> "json"])
           /\ exemptions' = IF Grants(collaborator.permission)
                            THEN Append(exemptions,
                                        Trim(DisabledCheck(pr.comments[i].body)))
                            ELSE exemptions
    /\ i' = i + 1
    /\ UNCHANGED <<pc, perm, fetches, rawPr, rawCommits, pr, j, evaluated,
                   failures, result>>

\* a failed lookup counted as "not an admin" in place of the early return
LookupFail_Denied ==
    /\ pc = "resolve"
    /\ i <= Len(pr.comments)
    /\ IsDirective(pr.comments[i].body) /\ HasCheck(pr.comments[i].body)
    /\ \E f \in {"badjson", "nobody", "error"} :
         lookups' = Append(lookups, [comment |-> i,
                                     login |-> LookupLogin(pr.comments[i]),
                                     resp |-> f])
    /\ i' = i + 1
    /\ UNCHANGED <<pc, perm, fetches, rawPr, rawCommits, pr, exemptions, j,
                   evaluated, failures, result>>

LookupFail ==
    /\ pc = "resolve"
    /\ i <= Len(pr.comments)
    /\ IsDirective(pr.comments[i].body) /\ HasCheck(pr.comments[i].body)
    /\ \E f \in {"badjson", "nobody", "error"} :
         /\ lookups' = Append(lookups, [comment |-> i,
                                        login |-> LookupLogin(pr.comments[i]),
                                        resp |-> f])
         /\ result' = Bail(CASE f = "badjson" -> <<"serde_json error">>
                             [] f = "nobody" ->
                                  <<"Could not get collaborator data: HTTP ", "status">>
                             [] OTHER -> <<"client error">>)
    /\ pc' = "done"
    /\ UNCHANGED <<perm, fetches, rawPr, rawCommits, pr, i, exemptions, j,
                   evaluated, failures>>

\* the rule loop entered before the comment loop is over
ResolveDone_Early ==
    /\ pc = "resolve"
    /\ pc' = "evaluate"
    /\ UNCHANGED <<perm, fetches, rawPr, rawCommits, pr, i, exemptions,
                   lookups, j, evaluated, failures, result>>

\* Ok(exemptions)
ResolveDone ==
    /\ pc = "resolve"
    /\ i > Len(pr.comments)
    /\ pc' = "evaluate"
    /\ UNCHANGED <<perm, fetches, rawPr, rawCommits, pr, i, exemptions,
                   lookups, j, evaluated, failures, result>>

----------------------------------------------------------------------------
\* validate_pull_request: the rule loop

\* a prefix test in place of the equality of contains
Exempted_Prefix(rule) ==
    \E k \in 1..Len(exemptions) : StartsWith(rule.name, exemptions[k])

\* exemptions.contains(&rule.name)
Exempted(rule) == \E k \in 1..Len(exemptions) : exemptions[k] = rule.name

\* format!("Failed {} ({})", rule.name, rule.description)
FailureMessage(rule) ==
    <<"Failed ">> \o rule.name \o <<" (">> \o rule.description \o <<")">>

\* format!(r#"Failed to run "{}" from "{}/{}""#, rule.name, repo.owner, repo.repo)
EvalErrorMessage(rule) ==
    <<"Failed to run ", "\"">> \o rule.name \o <<"\"", " from ", "\"">>
        \o Owner \o <<"/">> \o RepoName \o <<"\"">>

\* the filter of the iterator drops an exempted rule
FilterRule ==
    /\ pc = "evaluate"
    /\ j <= Len(Rules)
    /\ Exempted(Rules[j])
    /\ j' = j + 1
    /\ UNCHANGED <<pc, perm, fetches, rawPr, rawCommits, pr, i, exemptions,
                   lookups, evaluated, failures, result>>

\* failures.insert(0, ..) in place of push
EvalRule_Prepend ==
    /\ pc = "evaluate"
    /\ j <= Len(Rules)
    /\ ~Exempted(Rules[j])
    /\ \E v \in {"true", "false"} :
         /\ evaluated' = Append(evaluated, [rule |-> j, out |-> v])
         /\ failures' = IF v = "false"
                        THEN <<FailureMessage(Rules[j])>> \o failures
                        ELSE failures
    /\ j' = j + 1
    /\ UNCHANGED <<pc, perm, fetches, rawPr, rawCommits, pr, i, exemptions,
                   lookups, result>>

EvalRule ==
    /\ pc = "evaluate"
    /\ j <= Len(Rules)
    /\ ~Exempted(Rules[j])
    /\ \E v \in {"true", "false"} :
         /\ evaluated' = Append(evaluated, [rule |-> j, out |-> v])
         /\ failures' = IF v = "false"
                        THEN Append(failures, FailureMessage(Rules[j]))
                        ELSE failures
    /\ j' = j + 1
    /\ UNCHANGED <<pc, perm, fetches, rawPr, rawCommits, pr, i, exemptions,
                   lookups, result>>

\* unwrap_or(false) in place of `?`: the broken rule counts as failed
EvalFail_Swallow ==
    /\ pc = "evaluate"
    /\ j <= Len(Rules)
    /\ ~Exempted(Rules[j])
    /\ evaluated' = Append(evaluated, [rule |-> j, out |-> "error"])
    /\ failures' = Append(failures, FailureMessage(Rules[j]))
    /\ j' = j + 1
    /\ UNCHANGED <<pc, perm, fetches, rawPr, rawCommits, pr, i, exemptions,
                   lookups, result>>

EvalFail ==
    /\ pc = "evaluate"
    /\ j <= Len(Rules)
    /\ ~Exempted(Rules[j])
    /\ evaluated' = Append(evaluated, [rule |-> j, out |-> "error"])
    /\ result' = Bail(EvalErrorMessage(Rules[j]))
    /\ pc' = "done"
    /\ UNCHANGED <<perm, fetches, rawPr, rawCommits, pr, i, exemptions,
                   lookups, j, failures>>

\* Ok(failures)
Return ==
    /\ pc = "evaluate"
    /\ j > Len(Rules)
    /\ result' = [kind |-> "ok", list |-> failures]
    /\ pc' = "done"
    /\ UNCHANGED <<perm, fetches, rawPr, rawCommits, pr, i, exemptions,
                   lookups, j, evaluated, failures>>

----------------------------------------------------------------------------
Next ==
    \/ FetchPrOk
    \/ FetchPrFail
    \/ FetchCommitsOk
    \/ FetchCommitsFail
    \/ FetchCommentsOk
    \/ FetchCommentsFail
    \/ SkipComment
    \/ LookupOk
    \/ LookupFail
    \/ ResolveDone
    \/ FilterRule
    \/ EvalRule
    \/ EvalFail
    \/ Return

Spec == Init /\ [][Next]_vars

TypeOK ==
    /\ pc \in {"fetch_pr", "fetch_commits", "fetch_comments", "resolve",
               "evaluate", "done"}
    /\ i \in 1..(MaxComments + 1)
    /\ j \in 1..(Len(Rules) + 1)

----------------------------------------------------------------------------
\* Vocabulary of the properties

Admin(k) == perm[pr.comments[k].user.login] = "admin"

\* the text of body after the first occurrence of the marker, up to the end
AfterFirst(body) ==
    SubSeq(body, Find(body, Marker, 1) + Len(Marker), Len(body))

\* the text of body after the first occurrence of the marker, up to the next
\* occurrence or, when there is none, up to the end
UpToNext(body) ==
    LET rest == AfterFirst(body)
        k == Find(rest, Marker, 1)
    IN  IF k = 0 THEN rest ELSE SubSeq(rest, 1, k - 1)

AtStart(body) == Len(body) >= Len(Marker) /\ \A k \in 1..Len(Marker) : body[k] = Marker[k]

\* the rule names that the directives of Admin authors name
AdminNamed ==
    {Trim(UpToNext(pr.comments[k].body)) :
        k \in {n \in 1..Len(pr.comments) : AtStart(pr.comments[n].body) /\ Admin(n)}}

Outcome(r) == {evaluated[k].out : k \in {n \in 1..Len(evaluated) : evaluated[n].rule = r}}

Message(r) ==
    <<"Failed ">> \o Rules[r].name \o <<" (">> \o Rules[r].description \o <<")">>

LookupFailed(k) == lookups[k].resp # "json"

----------------------------------------------------------------------------
\* C1: a disable comment whose author has Write, Read or None permission adds
\* nothing to the exemption list and raises no error: the list holds one
\* entry per answered lookup of an Admin author, every lookup asks for the
\* login of the comment's author, an error comes only from a failed fetch,
\* a failed lookup or a failed evaluation, and in a returned list a rule that
\* only such comments name is evaluated and, when false, reported.
C1_NonAdminNoEffect ==
    /\ \A k \in 1..Len(lookups) :
         lookups[k].login = pr.comments[lookups[k].comment].user.login
    /\ Len(exemptions) =
         Cardinality({k \in 1..Len(lookups) :
                         ~LookupFailed(k) /\ Admin(lookups[k].comment)})
    /\ result.kind = "err" =>
         \/ \E k \in 1..Len(fetches) : fetches[k] # "ok"
         \/ lookups # <<>> /\ LookupFailed(Len(lookups))
         \/ evaluated # <<>> /\ evaluated[Len(evaluated)].out = "error"
    /\ result.kind = "ok" =>
         \A r \in 1..Len(Rules) :
           (/\ \E k \in 1..Len(pr.comments) :
                  /\ AtStart(pr.comments[k].body)
                  /\ Trim(UpToNext(pr.comments[k].body)) = Rules[r].name
                  /\ perm[pr.comments[k].user.login] \in {"write", "read", "none"}
            /\ Rules[r].name \notin AdminNamed)
           => /\ Outcome(r) # {}
              /\ "false" \in Outcome(r) => \E m \in 1..Len(result.list) :
                                              result.list[m] = Message(r)

\* a returned list reports the false rule ci that a comment of a non-admin
\* names, while the author of the pull request is an Admin
C1_Witness ==
    /\ result.kind = "ok"
    /\ perm[pr.user.login] = "admin"
    /\ \E k \in 1..Len(pr.comments) :
         /\ pr.comments[k].body = Marker \o <<" ">> \o ci
         /\ pr.comments[k].user.login # pr.user.login
         /\ ~Admin(k)
    /\ result.list # <<>> /\ result.list[1] = Message(1)

\* C2: a disable comment of an Admin exempts exactly the rule whose name is
\* the trimmed payload: in a returned list that rule is neither evaluated nor
\* reported, and every other rule is evaluated once and reported exactly when
\* false; a payload that names no rule changes nothing.
C2_AdminExemptsExactly ==
    result.kind = "ok" =>
      \A r \in 1..Len(Rules) :
        IF Rules[r].name \in AdminNamed
        THEN /\ Outcome(r) = {}
             /\ \A m \in 1..Len(result.list) : result.list[m] # Message(r)
        ELSE /\ Cardinality({n \in 1..Len(evaluated) : evaluated[n].rule = r}) = 1
             /\ ("false" \in Outcome(r)) <=>
                  (\E m \in 1..Len(result.list) : result.list[m] = Message(r))

\* an Admin disables ci and names the unknown rule zz: ci is gone from the
\* list and desc is reported
C2_Witness ==
    /\ result.kind = "ok"
    /\ AdminNamed = {ci, zz}
    /\ result.list = <<Message(2)>>

RECURSIVE ExpectedFrom(_)
ExpectedFrom(r) ==
    IF r > Len(Rules) THEN <<>>
    ELSE (IF Rules[r].name \notin Range(exemptions) /\ Outcome(r) = {"false"}
          THEN <<Message(r)>> ELSE <<>>) \o ExpectedFrom(r + 1)

\* C3: a returned list is exactly the messages "Failed {name} ({description})"
\* of the rules that are not exempted and evaluate to false, in the order of
\* the configured rules; it is empty when none of them is false.
C3_ListIsOrderedFailures ==
    result.kind = "ok" =>
      /\ result.list = ExpectedFrom(1)
      /\ \A r \in 1..Len(Rules) :
           Rules[r].name \notin Range(exemptions) => Outcome(r) \in {{"true"}, {"false"}}
      /\ (\A r \in 1..Len(Rules) : "false" \notin Outcome(r)) => result.list = <<>>

\* both rules are false and reported, ci before desc
C3_Witness ==
    /\ result.kind = "ok"
    /\ result.list = << <<"Failed ", "c", "i", " (", "needs commits", ")">>,
                        <<"Failed ", "d", "e", "s", "c", " (", "needs body", ")">> >>

\* the comment is a directive with nothing, or only whitespace, after the marker
Malformed(body) == Contains(body, Marker) /\ Trim(AfterFirst(body)) = <<>>

\* C4: a malformed disable directive (the marker followed by nothing or by
\* whitespace only) adds no entry to the exemption list, not even the empty
\* string, and no failure of the permission lookup for its author makes the
\* run fail.
C4_MalformedIsSkipped ==
    /\ \A k \in 1..Len(exemptions) : exemptions[k] # <<>>
    /\ (result.kind = "err" /\ lookups # <<>> /\ LookupFailed(Len(lookups)))
         => ~Malformed(pr.comments[lookups[Len(lookups)].comment].body)

\* C5: when the permission lookup for the author of a directive comment is
\* not completed (request error, no body, undecodable body) the run returns
\* an error and no list, whatever earlier lookups answered and whatever the
\* rules would evaluate to: that lookup is the last step of the run, no rule
\* is evaluated and the directive is not counted as granted.
C5_LookupFailureAborts ==
    \A k \in 1..Len(lookups) :
      LookupFailed(k) =>
        /\ k = Len(lookups)
        /\ pc = "done"
        /\ result.kind = "err"
        /\ "list" \notin DOMAIN result
        /\ evaluated = <<>>
        /\ Len(exemptions) <= k - 1

\* the lookup for the first comment grants an exemption, the lookup for the
\* second one fails
C5_Witness ==
    /\ Len(lookups) = 2
    /\ lookups[1].resp = "json" /\ Len(exemptions) = 1
    /\ LookupFailed(2)
    /\ result.kind = "err"

\* C6: when one of the three fetches fails the run returns an error and no
\* list, no PullRequest is built, no permission lookup is issued and no rule
\* is evaluated.
C6_FetchFailureAborts ==
    (\E k \in 1..Len(fetches) : fetches[k] # "ok") =>
        /\ pc = "done"
        /\ result.kind = "err"
        /\ "list" \notin DOMAIN result
        /\ pr = NoPR
        /\ lookups = <<>>
        /\ evaluated = <<>>
        /\ fetches[Len(fetches)] # "ok"

\* the fetch of the commits fails after the pull request was fetched
C6_Witness ==
    /\ Len(fetches) = 2 /\ fetches[1] = "ok" /\ fetches[2] = "error"
    /\ result.kind = "err"

\* C7: when the expression of a rule that is not exempted fails to evaluate,
\* the run returns an error that carries the name of that rule and
\* owner/repo, returns no list although failures were accumulated, and
\* evaluates no later rule.
C7_ExpressionErrorAborts ==
    \A k \in 1..Len(evaluated) :
      evaluated[k].out = "error" =>
        /\ k = Len(evaluated)
        /\ pc = "done"
        /\ result.kind = "err"
        /\ "list" \notin DOMAIN result
        /\ Contains(result.msg, <<"\"">> \o Rules[evaluated[k].rule].name \o <<"\"">>)
        /\ Contains(result.msg, <<"\"">> \o Owner \o <<"/">> \o RepoName \o <<"\"">>)
        /\ ~Exempted(Rules[evaluated[k].rule])

\* ci is false and recorded as a failure, then the expression of desc fails
C7_Witness ==
    /\ Len(evaluated) = 2
    /\ evaluated[1].out = "false" /\ failures # <<>>
    /\ evaluated[2].out = "error"
    /\ result.kind = "err"

C9_PayloadToEnd ==
    \A k \in 1..Len(lookups) :
      (~LookupFailed(k) /\ Admin(lookups[k].comment))
      => Trim(AfterFirst(pr.comments[lookups[k].comment].body)) \in Range(exemptions)

RECURSIVE NamesFrom(_)
NamesFrom(k) ==
    IF k > Len(lookups) THEN <<>>
    ELSE (IF ~LookupFailed(k) /\ Admin(lookups[k].comment)
          THEN <<Trim(UpToNext(pr.comments[lookups[k].comment].body))>>
          ELSE <<>>) \o NamesFrom(k + 1)

\* C9 amended: the candidate rule name is the trimmed text between the first
\* occurrence of the marker and its next occurrence, or the end of the body
\* when there is none: the exemption list is these names, in the order of
\* the comments of Admins.
C9_PayloadToNextMarker ==
    exemptions = NamesFrom(1)

\* an Admin wrote "tailor disable ci tailor disable desc": ci is exempted
C9_Witness ==
    /\ lookups # <<>>
    /\ pr.comments[lookups[1].comment].body =
         Marker \o <<" ">> \o ci \o <<" ">> \o Marker \o <<" ">> \o desc
    /\ exemptions = <<ci>>

Stage(p) ==
    CASE p = "fetch_pr" -> 1
      [] p = "fetch_commits" -> 2
      [] p = "fetch_comments" -> 3
      [] p = "resolve" -> 4
      [] p = "evaluate" -> 5
      [] p = "done" -> 6

\* C10: a run is a linear pipeline: the stage never goes back, a permission
\* lookup is issued only after the three fetches succeeded and the
\* PullRequest is built, a rule is evaluated only after every comment has
\* been resolved and never in a step that issues a lookup, and nothing
\* happens after the run has returned.
C10_LinearPipeline ==
    [][/\ Stage(pc') >= Stage(pc)
       /\ lookups' # lookups =>
            /\ fetches = <<"ok", "ok", "ok">>
            /\ pr # NoPR
            /\ evaluated = <<>>
       /\ evaluated' # evaluated =>
            /\ pr # NoPR
            /\ i > Len(pr.comments)
            /\ lookups' = lookups
            /\ exemptions' = exemptions
       /\ result.kind # "none" => UNCHANGED vars]_vars

\* a run that issued a lookup, evaluated a rule and returned
C10_Witness ==
    /\ pc = "done"
    /\ lookups # <<>>
    /\ evaluated # <<>>
    /\ result.kind = "ok"

====
